---- MODULE Spec2Model ----
(***************************************************************************)
(* Telegram message monitor (src/main.py, src/config.py).                  *)
(*                                                                         *)
(* A Pyrogram user session receives every message; handle_message filters  *)
(* it (should_process_message), drops self-authored messages, formats a    *)
(* report (format_message_info) and sends the report to every entry of     *)
(* TARGET_USERS through an Aiogram bot.                                    *)
(*                                                                         *)
(* Encoding.  A Python str is a sequence of one-character strings.  An     *)
(* Optional value is a sequence of length 0 (None) or 1 (the value), so    *)
(* that None and the empty string are different inputs even though the     *)
(* code tests both with truthiness only.                                   *)
(*                                                                         *)
(* Events.  handle_message reads the module-level settings and its own     *)
(* argument and writes nothing that another invocation reads, so           *)
(* invocations running at the same time cannot influence one another; the  *)
(* model follows one invocation at a time and lets the next one start      *)
(* when it has ended.  Its code up to the first awaited send_message has   *)
(* no suspension point that another step of the model could observe and    *)
(* is one action (Receive); every awaited send is one action (Send).       *)
(***************************************************************************)
EXTENDS Integers, Sequences, FiniteSets, TLC

VARIABLES
    config,     \* src/config.py: the settings, read once, never written
    phase,      \* process life cycle: Start, Idle, Listening, Exited, Crashed
    log,        \* startup records written through logger (main)
    runCalls,   \* number of calls of user_bot.run()
    message,    \* the inbound message of the event being handled
    fault,      \* where, if anywhere, library code raises during this event
    pc,         \* position of handle_message: none, send, done
    idx,        \* 1-based position of the for loop in TARGET_USERS
    trace,      \* the steps handle_message executed for this event, in order
    accepted,   \* Some(result of should_process_message), None if not called
    report,     \* Some(message_info), None if format_message_info returned nothing
    sent,       \* the send_message calls of this event, in order
    outcome,    \* how handle_message ended: running, returned, caught, propagated
    prev,       \* how the previous event ended: none, returned, sendfailed, caught, propagated
    fnIn,       \* input of the pure function under check (filter / format runs)
    fnOut       \* its result

vars == <<config, phase, log, runCalls, message, fault, pc, idx, trace, accepted, report, sent, outcome, prev, fnIn, fnOut>>

(***************************************************************************)
(* Bounds and program constants                                            *)
(***************************************************************************)
MaxRecipients == 2      \* longest TARGET_USERS list explored
MaxMinLen == 3          \* largest MIN_MESSAGE_LENGTH explored
MaxTextLen == 4         \* longest text handed to the filter
MaxShort == 2           \* longest free-form string handed to the formatter
Slack == 1              \* lengths explored around each truncation limit
MaxClock == 1           \* datetime.now() values explored

TextLimit == 200        \* main.py:82
CaptionLimit == 100     \* main.py:93

(***************************************************************************)
(* Python values                                                           *)
(***************************************************************************)
None == <<>>
Some(v) == <<v>>
IsNone(o) == o = <<>>
Val(o) == o[1]

\* truthiness of an Optional[str]: None and "" are both false
TruthyStr(o) == o # <<>> /\ Val(o) # <<>>

\* `a or b` on Optional[str] operands
OrElse(a, b) == IF TruthyStr(a) THEN a ELSE b

\* s[:n]
Prefix(s, n) == IF Len(s) <= n THEN s ELSE SubSeq(s, 1, n)

Ellipsis == <<".", ".", ".">>

\* n copies of c
Fill(n, c) == [i \in 1..n |-> c]

RECURSIVE Replace(_, _, _)
\* str.replace(old, new) for a one-character old: every occurrence is
\* replaced, left to right.  Occurrences of one character cannot overlap, so
\* the scan is done on the two halves of s.
Replace(s, old, new) ==
    IF s = <<>> THEN <<>>
    ELSE IF Len(s) = 1 THEN (IF s[1] = old THEN new ELSE s)
    ELSE LET h == Len(s) \div 2
         IN Replace(SubSeq(s, 1, h), old, new) \o Replace(SubSeq(s, h + 1, Len(s)), old, new)

\* The reserved characters.  A string literal of the module cannot hold
\* the grave accent, so the atom "BT" stands for that character.
Star == "*"
Underscore == "_"
Backtick == "BT"
Backslash == "\\"
Reserved == {Star, Underscore, Backtick}

\* mutant of EscapeMarkdown: the backslash is escaped too, after the others
EscapeMarkdownTwice(s) ==
    Replace(Replace(Replace(Replace(s, Star, <<Backslash, Star>>), Underscore, <<Backslash, Underscore>>), Backtick, <<Backslash, Backtick>>), Backslash, <<Backslash, Backslash>>)

\* .replace(STAR, BACKSLASH STAR).replace(UNDERSCORE, BACKSLASH UNDERSCORE)
\* .replace(GRAVE, BACKSLASH GRAVE), in this order
EscapeMarkdown(s) ==
    Replace(Replace(Replace(s, Star, <<Backslash, Star>>), Underscore, <<Backslash, Underscore>>), Backtick, <<Backslash, Backtick>>)

RECURSIVE LStrip(_)
LStrip(s) == IF s # <<>> /\ Head(s) = " " THEN LStrip(Tail(s)) ELSE s

RECURSIVE RStrip(_)
RStrip(s) == IF s # <<>> /\ s[Len(s)] = " " THEN RStrip(SubSeq(s, 1, Len(s) - 1)) ELSE s

\* str.strip()
Strip(s) == RStrip(LStrip(s))

\* mutant of Truncate: >= for >
TruncateAtLimit(s, limit) == IF Len(s) >= limit THEN Prefix(s, limit) \o Ellipsis ELSE s

\* text[:limit] + "..." if len(text) > limit else text
Truncate(s, limit) == IF Len(s) > limit THEN Prefix(s, limit) \o Ellipsis ELSE s

\* chat.type.value.title()
TitleCase(t) ==
    CASE t = "private" -> "Private"
      [] t = "bot" -> "Bot"
      [] t = "group" -> "Group"
      [] t = "supergroup" -> "Supergroup"
      [] t = "channel" -> "Channel"
      [] OTHER -> "Unknown"

\* str(message.media).split('.')[-1].upper(); a media kind is the sequence
\* of the dot-separated parts of its enum name
MediaLabel(m) ==
    LET last == m[Len(m)]
    IN CASE last = "photo" -> "PHOTO"
         [] last = "video" -> "VIDEO"
         [] OTHER -> last

(***************************************************************************)
(* should_process_message                                                  *)
(***************************************************************************)
\* line 113: the message has no chat
NoChatRule(m) == IsNone(m.chat)

\* mutant of ExcludedRule: the test sits under `if message.chat.type:`
ExcludedRuleUnderType(cfg, chat) == chat.type # None /\ chat.id \in cfg.EXCLUDED_CHATS

\* line 117: the chat is on the exclusion list
ExcludedRule(cfg, chat) == chat.id \in cfg.EXCLUDED_CHATS

\* mutant of ChatTypeRule: supergroup forgotten, bot chats taken as private
ChatTypeRuleBotPrivate(cfg, chat) ==
    /\ chat.type # None
    /\ \/ Val(chat.type) \in {"private", "bot"} /\ ~cfg.INCLUDE_PRIVATE_CHATS
       \/ Val(chat.type) = "group" /\ ~cfg.INCLUDE_GROUPS
       \/ Val(chat.type) = "channel" /\ ~cfg.INCLUDE_CHANNELS

\* lines 121-128: the chat type is known and its inclusion flag is off
ChatTypeRule(cfg, chat) ==
    /\ chat.type # None
    /\ \/ Val(chat.type) = "private" /\ ~cfg.INCLUDE_PRIVATE_CHATS
       \/ Val(chat.type) \in {"group", "supergroup"} /\ ~cfg.INCLUDE_GROUPS
       \/ Val(chat.type) = "channel" /\ ~cfg.INCLUDE_CHANNELS

\* mutant of LengthRule: <= for <
LengthRuleInclusive(cfg, m) == TruthyStr(m.text) /\ Len(Val(m.text)) <= cfg.MIN_MESSAGE_LENGTH

\* line 131: there is a (non-empty) text and it is too short
LengthRule(cfg, m) == TruthyStr(m.text) /\ Len(Val(m.text)) < cfg.MIN_MESSAGE_LENGTH

\* line 135: there is media and media is not included
MediaRule(cfg, m) == m.media # None /\ ~cfg.INCLUDE_MEDIA

\* The return statement that ends should_process_message: 1..5 are the five
\* `return False` in source order, 0 is the final `return True`.
RejectingRule(cfg, m) ==
    IF NoChatRule(m) THEN 1
    ELSE IF ExcludedRule(cfg, Val(m.chat)) THEN 2
    ELSE IF ChatTypeRule(cfg, Val(m.chat)) THEN 3
    ELSE IF LengthRule(cfg, m) THEN 4
    ELSE IF MediaRule(cfg, m) THEN 5
    ELSE 0

should_process_message(cfg, m) == RejectingRule(cfg, m) = 0

(***************************************************************************)
(* format_message_info                                                     *)
(***************************************************************************)
\* one element of info_parts: the label printed between the emoji and the
\* colon, and the text that follows it
Line(label, value) == [label |-> label, value |-> value]

\* datetime.now().strftime("%Y-%m-%d %H:%M:%S") for clock reading `now`
Timestamp(now) == <<"T", ToString(now)>>

\* f"@{username}" if username else "No username"
UsernameText(username) == IF TruthyStr(username) THEN <<"@">> \o Val(username) ELSE <<"No username">>

\* lines 52-65: the chat block
ChatLines(m) ==
    IF IsNone(m.chat) THEN <<>>
    ELSE LET chat == Val(m.chat)
             chat_type == IF chat.type # None THEN Val(chat.type) ELSE "unknown"
             chat_title == Val(OrElse(chat.title, OrElse(chat.first_name, Some(<<"Unknown">>))))
         IN << Line("Chat", EscapeMarkdown(chat_title)),
               Line("Type", <<TitleCase(chat_type)>>),
               Line("Username", UsernameText(chat.username)),
               Line("Chat ID", <<ToString(chat.id)>>) >>

\* f"{sender.first_name or ''} {sender.last_name or ''}".strip()
SenderName(sender) ==
    Strip(Val(OrElse(sender.first_name, Some(<<>>))) \o <<" ">> \o Val(OrElse(sender.last_name, Some(<<>>))))

\* lines 67-78: the sender block
SenderLines(m) ==
    IF IsNone(m.from_user) THEN <<>>
    ELSE LET sender == Val(m.from_user)
         IN << Line("Sender", EscapeMarkdown(SenderName(sender))),
               Line("Sender Username", UsernameText(sender.username)),
               Line("Sender ID", <<ToString(sender.id)>>) >>

\* lines 80-85: the text line
TextLines(m) ==
    IF TruthyStr(m.text)
    THEN << Line("Text", EscapeMarkdown(Truncate(Val(m.text), TextLimit))) >>
    ELSE <<>>

\* lines 87-96: the media line and the caption line
MediaLines(m) ==
    IF m.media = None THEN <<>>
    ELSE << Line("Media", <<MediaLabel(Val(m.media))>>) >>
         \o (IF TruthyStr(m.caption)
             THEN << Line("Caption", EscapeMarkdown(Truncate(Val(m.caption), CaptionLimit))) >>
             ELSE <<>>)

\* lines 98-103: reply and forward markers
MarkerLines(m) ==
    (IF m.reply_to_message THEN << Line("Reply", <<"This is a reply to another message">>) >> ELSE <<>>)
    \o (IF m.forward_from \/ m.forward_from_chat
        THEN << Line("Forwarded", <<"This is a forwarded message">>) >>
        ELSE <<>>)

\* info_parts at line 107; "\n".join keeps the parts apart, one per line
format_message_info(m, now) ==
    << Line("Time", Timestamp(now)) >>
    \o ChatLines(m) \o SenderLines(m) \o TextLines(m) \o MediaLines(m) \o MarkerLines(m)
    \o << Line("Message ID", <<ToString(m.id)>>) >>

\* the value printed after `label` in a report, None when the line is absent
Field(rep, label) ==
    LET hits == { i \in 1..Len(rep) : rep[i].label = label }
    IN IF hits = {} THEN None ELSE Some(rep[CHOOSE i \in hits : TRUE].value)

(***************************************************************************)
(* Inputs: settings and messages                                           *)
(***************************************************************************)
ChatIds == {1, 2}
RecipientIds == {1, 2}
ChatTypes == {"private", "bot", "group", "supergroup", "channel"}
Photo == <<"MessageMediaType", "photo">>
Clock == 0..MaxClock

\* every list of at most n elements of S
ListsUpTo(S, n) == UNION { [1..k -> S] : k \in 0..n }

\* src/config.py as a record; a credential is TRUE when os.getenv gave a
\* non-empty value (the code only tests `not API_ID` and so on)
Config(id, hash, token, targets, excluded, minlen, media, private, groups, channels) ==
    [ API_ID |-> id, API_HASH |-> hash, BOT_TOKEN |-> token,
      TARGET_USERS |-> targets, EXCLUDED_CHATS |-> excluded,
      MIN_MESSAGE_LENGTH |-> minlen, INCLUDE_MEDIA |-> media,
      INCLUDE_PRIVATE_CHATS |-> private, INCLUDE_GROUPS |-> groups,
      INCLUDE_CHANNELS |-> channels ]

\* pyrogram.types.Chat, the fields the code reads
Chat(id, type, title, first_name, username) ==
    [ id |-> id, type |-> type, title |-> title, first_name |-> first_name, username |-> username ]

\* pyrogram.types.User, the fields the code reads
User(id, first_name, last_name, username, is_self) ==
    [ id |-> id, first_name |-> first_name, last_name |-> last_name,
      username |-> username, is_self |-> is_self ]

\* pyrogram.types.Message, the fields the code reads
Message(id, chat, from_user, text, media, caption, reply, fwd_user, fwd_chat) ==
    [ id |-> id, chat |-> chat, from_user |-> from_user, text |-> text,
      media |-> media, caption |-> caption, reply_to_message |-> reply,
      forward_from |-> fwd_user, forward_from_chat |-> fwd_chat ]

PlainChat(id, type) == Chat(id, type, Some(<<"c">>), None, None)
PlainUser(id, is_self) == User(id, Some(<<"u">>), None, None, is_self)
PlainMessage(chat, from_user, text, media) ==
    Message(1, chat, from_user, text, media, None, FALSE, FALSE, FALSE)

NoMessage == PlainMessage(None, None, None, None)

\* settings explored by the dispatch runs: every credential combination with
\* every recipient list, and every exclusion list with every flag combination
DispatchConfigs ==
    { Config(id, hash, token, targets, excluded, 1, TRUE, TRUE, TRUE, TRUE) :
        id \in BOOLEAN, hash \in BOOLEAN, token \in BOOLEAN,
        targets \in ListsUpTo(RecipientIds, MaxRecipients), excluded \in {{}, {1}} }
    \cup
    { Config(TRUE, TRUE, TRUE, <<1, 2>>, excluded, minlen, media, private, groups, channels) :
        excluded \in SUBSET ChatIds, minlen \in {1, MaxMinLen}, media \in BOOLEAN,
        private \in BOOLEAN, groups \in BOOLEAN, channels \in BOOLEAN }

DispatchMessages ==
    { PlainMessage(chat, from_user, text, media) :
        chat \in {None} \cup { Some(PlainChat(id, type)) : id \in ChatIds,
                               type \in {None, Some("private"), Some("group"), Some("channel")} },
        from_user \in {None, Some(PlainUser(7, TRUE)), Some(PlainUser(8, FALSE))},
        text \in {None, Some(<<"h", "i">>)},
        media \in {None, Some(Photo)} }

\* The clock readings taken while events are handled.  The reading only
\* fills the Time line, so one value is explored here; format_message_info
\* on its own is run with every value of Clock.
DispatchClock == {0}

\* where library code may raise while one event is handled: nowhere, in
\* print(message), inside should_process_message, inside format_message_info
Faults == {"none", "print", "filter", "format"}

(***************************************************************************)
(* Startup: module import (lines 24-42) and main (lines 173-189)           *)
(***************************************************************************)
\* Bot(token=BOT_TOKEN) at import time.  With a token it returns the bot.
\* Without one the outcome is the library's: aiogram validates the token in
\* the constructor and raises, so both outcomes are kept.
BotConstructOutcomes(token) == IF token THEN {"ok"} ELSE {"ok", "raise"}

\* main(): the records it logs and whether it reaches user_bot.run()
main(cfg) ==
    IF ~cfg.API_ID \/ ~cfg.API_HASH
    THEN [ log |-> {<<"error", "API_ID and API_HASH must be configured!">>}, run |-> FALSE ]
    ELSE IF ~cfg.BOT_TOKEN
    THEN [ log |-> {<<"error", "BOT_TOKEN must be configured!">>}, run |-> FALSE ]
    ELSE [ log |-> IF cfg.TARGET_USERS = <<>>
                   THEN {<<"warning", "No target users configured!">>} ELSE {},
           run |-> TRUE ]

(***************************************************************************)
(* handle_message (lines 140-171)                                          *)
(***************************************************************************)
\* mutant of OuterExcept: the clause re-raises
OuterExceptReraise == "propagated"

\* the `except Exception` clause of lines 170-171: log and end the handler
OuterExcept == "caught"

\* mutant of SelfAuthored: the test is inverted
SelfAuthoredInverted(m) == m.from_user # None /\ ~Val(m.from_user).is_self

\* line 150: the sender is the listening account
SelfAuthored(m) == m.from_user # None /\ Val(m.from_user).is_self

\* lines 142-156, which run without suspension: print, filter, self check,
\* format.  `f` names the call that raises, if any.
HandlerPrefix(cfg, m, f, now) ==
    IF f = "print"
    THEN [ trace |-> <<"print">>, accepted |-> None, report |-> None, outcome |-> "propagated" ]
    ELSE IF f = "filter"
    THEN [ trace |-> <<"print", "filter">>, accepted |-> None, report |-> None, outcome |-> OuterExcept ]
    ELSE IF ~should_process_message(cfg, m)
    THEN [ trace |-> <<"print", "filter">>, accepted |-> Some(FALSE), report |-> None, outcome |-> "returned" ]
    ELSE IF SelfAuthored(m)
    THEN [ trace |-> <<"print", "filter", "self">>, accepted |-> Some(TRUE), report |-> None, outcome |-> "returned" ]
    ELSE IF f = "format"
    THEN [ trace |-> <<"print", "filter", "self", "format">>, accepted |-> Some(TRUE), report |-> None, outcome |-> OuterExcept ]
    ELSE [ trace |-> <<"print", "filter", "self", "format">>, accepted |-> Some(TRUE),
           report |-> Some(format_message_info(m, now)), outcome |-> "running" ]

\* the text argument of send_message, line 163
Notification(message_info) == [ header |-> "New Message Detected", info |-> message_info ]

\* what one send_message call may do: return, or raise an Exception
SendResults == {"ok", "raise"}

\* mutant of AfterSend: no inner try, a failed send ends at the outer except
AfterSendAbort(i, res) ==
    IF res = "raise" THEN [ idx |-> i, pc |-> "done", outcome |-> "caught" ]
    ELSE [ idx |-> i + 1, pc |-> "send", outcome |-> "running" ]

\* mutant of AfterSend: a failed send is tried again
AfterSendRetry(i, res) ==
    [ idx |-> IF res = "raise" THEN i ELSE i + 1, pc |-> "send", outcome |-> "running" ]

\* lines 159-168: where the loop stands after the send to entry i ended with
\* `res`; the inner `except Exception` logs and the loop goes on
AfterSend(i, res) == [ idx |-> i + 1, pc |-> "send", outcome |-> "running" ]

(***************************************************************************)
(* The process                                                             *)
(***************************************************************************)
NoEvent ==
    /\ message = NoMessage /\ fault = "none" /\ pc = "none" /\ idx = 0
    /\ trace = <<>> /\ accepted = None /\ report = None /\ sent = <<>>
    /\ outcome = "none" /\ prev = "none"

Init ==
    /\ config \in DispatchConfigs
    /\ phase = "Start" /\ log = {} /\ runCalls = 0
    /\ NoEvent
    /\ fnIn = None /\ fnOut = None

\* lines 24-42: logging set up, both clients constructed
Import ==
    /\ phase = "Start"
    /\ \E r \in BotConstructOutcomes(config.BOT_TOKEN) :
          phase' = IF r = "raise" THEN "Crashed" ELSE "Idle"
    /\ UNCHANGED <<config, log, runCalls, message, fault, pc, idx, trace, accepted, report, sent, outcome, prev, fnIn, fnOut>>

\* asyncio.run(main())
Main ==
    /\ phase = "Idle"
    /\ log' = log \cup main(config).log
    /\ runCalls' = IF main(config).run THEN runCalls + 1 ELSE runCalls
    /\ phase' = IF main(config).run THEN "Listening" ELSE "Exited"
    /\ UNCHANGED <<config, message, fault, pc, idx, trace, accepted, report, sent, outcome, prev, fnIn, fnOut>>

\* how the event that just ended went: the handler's outcome, with a
\* return after some failed send told apart
EventResult ==
    IF outcome = "returned" /\ \E i \in 1..Len(sent) : sent[i].result = "raise"
    THEN "sendfailed"
    ELSE outcome

\* the session delivers one message to handle_message, which runs up to its
\* first await of send_message
Receive ==
    /\ phase = "Listening"
    /\ pc = "none"
    /\ \E m \in DispatchMessages, f \in Faults, now \in DispatchClock :
          LET r == HandlerPrefix(config, m, f, now)
          IN /\ message' = m
             /\ fault' = f
             /\ trace' = r.trace
             /\ accepted' = r.accepted
             /\ report' = r.report
             /\ outcome' = r.outcome
             /\ pc' = IF r.outcome = "running" THEN "send" ELSE "done"
             /\ idx' = IF r.outcome = "running" THEN 1 ELSE 0
    /\ UNCHANGED <<config, phase, log, runCalls, sent, prev, fnIn, fnOut>>

\* one iteration of the for loop: await send_message for TARGET_USERS[idx]
Send ==
    /\ pc = "send"
    /\ idx <= Len(config.TARGET_USERS)
    /\ \E res \in SendResults :
          /\ sent' = Append(sent, [ chat_id |-> config.TARGET_USERS[idx],
                                    text |-> Notification(Val(report)),
                                    result |-> res ])
          /\ idx' = AfterSend(idx, res).idx
          /\ pc' = AfterSend(idx, res).pc
          /\ outcome' = AfterSend(idx, res).outcome
    /\ UNCHANGED <<config, phase, log, runCalls, message, fault, trace, accepted, report, prev, fnIn, fnOut>>

\* the for loop is exhausted and handle_message returns
Return ==
    /\ pc = "send"
    /\ idx > Len(config.TARGET_USERS)
    /\ pc' = "done"
    /\ outcome' = "returned"
    /\ UNCHANGED <<config, phase, log, runCalls, message, fault, idx, trace, accepted, report, sent, prev, fnIn, fnOut>>

\* handle_message is over; its locals are gone and the session waits for the
\* next message
Complete ==
    /\ pc = "done"
    /\ message' = NoMessage /\ fault' = "none" /\ pc' = "none" /\ idx' = 0
    /\ trace' = <<>> /\ accepted' = None /\ report' = None /\ sent' = <<>>
    /\ outcome' = "none"
    /\ prev' = EventResult
    /\ UNCHANGED <<config, phase, log, runCalls, fnIn, fnOut>>

Next == Import \/ Main \/ Receive \/ Send \/ Return \/ Complete

Spec == Init /\ [][Next]_vars

\* the delivery loop under every recipient list, with the shipped filters
LoopConfigs ==
    { Config(id, hash, TRUE, targets, {}, 1, TRUE, TRUE, TRUE, TRUE) :
        id \in BOOLEAN, hash \in BOOLEAN, targets \in ListsUpTo(RecipientIds, MaxRecipients) }

InitLoop == Init /\ config \in LoopConfigs

\* The handler, once started, runs on: each awaited send returns or raises
\* (Send), the exhausted loop returns (Return), and the session takes the
\* handler's return (Complete).  Messages need not keep coming.
FairSpec == InitLoop /\ [][Next]_vars /\ WF_vars(Send) /\ WF_vars(Return) /\ WF_vars(Complete)

(***************************************************************************)
(* should_process_message on its own                                       *)
(***************************************************************************)
\* the settings the filter reads, with everything else at a fixed value
FilterConfigs ==
    { Config(TRUE, TRUE, TRUE, <<>>, excluded, minlen, media, private, groups, channels) :
        excluded \in SUBSET ChatIds, minlen \in 0..MaxMinLen, media \in BOOLEAN,
        private \in BOOLEAN, groups \in BOOLEAN, channels \in BOOLEAN }

\* no chat, or a chat of any id with no type or any type; no text, or a
\* text of any length up to MaxTextLen (the empty one included); media or not
FilterMessages ==
    { PlainMessage(chat, None, text, media) :
        chat \in {None} \cup { Some(PlainChat(id, type)) : id \in ChatIds,
                               type \in {None} \cup { Some(t) : t \in ChatTypes } },
        text \in {None} \cup { Some(Fill(n, "a")) : n \in 0..MaxTextLen },
        media \in {None, Some(Photo)} }

IdleProcess(name) ==
    /\ config = Config(TRUE, TRUE, TRUE, <<>>, {}, 1, TRUE, TRUE, TRUE, TRUE)
    /\ phase = name /\ log = {} /\ runCalls = 0
    /\ NoEvent

InitFilter ==
    /\ IdleProcess("Filter")
    /\ fnIn \in { Some([cfg |-> c, m |-> m]) : c \in FilterConfigs, m \in FilterMessages }
    /\ fnOut = None

\* one call of should_process_message(message)
ApplyFilter ==
    /\ phase = "Filter"
    /\ fnOut = None
    /\ fnOut' = Some(RejectingRule(Val(fnIn).cfg, Val(fnIn).m))
    /\ UNCHANGED <<config, phase, log, runCalls, message, fault, pc, idx, trace, accepted, report, sent, outcome, prev, fnIn>>

SpecFilter == InitFilter /\ [][ApplyFilter]_vars

(***************************************************************************)
(* format_message_info on its own                                          *)
(***************************************************************************)
Alphabet == {"a", Star, Underscore, Backtick, Backslash}
ShortStrs == ListsUpTo(Alphabet, MaxShort)
NameStrs == ListsUpTo({"a", " ", Star}, MaxShort)

\* strings whose length lies around `limit`: a short string before or after
\* a run of plain characters
StrsAround(limit) ==
    { Fill(limit - d, "a") \o t : d \in 0..Slack, t \in ShortStrs }
    \cup { t \o Fill(limit - d, "a") : d \in 0..Slack, t \in ShortStrs }

Optional(S) == {None} \cup { Some(x) : x \in S }

FormatMessages ==
    \* the text
    { Message(1, Some(PlainChat(1, Some("private"))), Some(PlainUser(8, FALSE)), text, None, None, FALSE, FALSE, FALSE) :
        text \in Optional(ShortStrs \cup StrsAround(TextLimit)) }
    \cup
    \* the caption, with and without media
    { Message(2, Some(PlainChat(1, Some("group"))), None, None, media, caption, FALSE, FALSE, FALSE) :
        media \in {None, Some(Photo)}, caption \in Optional(ShortStrs \cup StrsAround(CaptionLimit)) }
    \cup
    \* the chat block
    { Message(3, Some(Chat(2, type, title, first_name, username)), None, Some(<<"a">>), None, None, reply, FALSE, FALSE) :
        type \in {None, Some("channel")}, title \in Optional(ShortStrs),
        first_name \in {None, Some(<<Underscore>>)}, username \in {None, Some(<<"a">>)},
        reply \in BOOLEAN }
    \cup
    \* the sender block
    { Message(4, chat, Some(User(8, first_name, last_name, username, FALSE)), None, None, None, FALSE, fwd_user, fwd_chat) :
        chat \in {None, Some(PlainChat(1, Some("bot")))},
        first_name \in Optional(NameStrs), last_name \in Optional(NameStrs),
        username \in {None, Some(<<"a">>)}, fwd_user \in BOOLEAN, fwd_chat \in BOOLEAN }

InitFormat ==
    /\ IdleProcess("Format")
    /\ fnIn \in { Some([m |-> m, now |-> t]) : m \in FormatMessages, t \in Clock }
    /\ fnOut = None

\* one call of format_message_info(message)
ApplyFormat ==
    /\ phase = "Format"
    /\ fnOut = None
    /\ fnOut' = Some(format_message_info(Val(fnIn).m, Val(fnIn).now))
    /\ UNCHANGED <<config, phase, log, runCalls, message, fault, pc, idx, trace, accepted, report, sent, outcome, prev, fnIn>>

SpecFormat == InitFormat /\ [][ApplyFormat]_vars

(***************************************************************************)
(* Properties of should_process_message (checked under SpecFilter)         *)
(***************************************************************************)
FilterCfg == Val(fnIn).cfg
FilterMsg == Val(fnIn).m
FilterDone == phase = "Filter" /\ fnOut # None

\* the message passes the chat, exclusion, chat-type and media rules: with
\* its text taken away, it is accepted
PassesOtherRules == RejectingRule(FilterCfg, [FilterMsg EXCEPT !.text = None]) = 0

\* C7 as stated: with the other rules passed, a message carrying a text of
\* length L >= 0 is rejected if and only if L < MIN_MESSAGE_LENGTH, and a
\* message with no text is not rejected.
C7_LengthRuleAsStated ==
    FilterDone /\ PassesOtherRules =>
        IF FilterMsg.text = None
        THEN Val(fnOut) = 0
        ELSE (Val(fnOut) # 0) <=> (Len(Val(FilterMsg.text)) < FilterCfg.MIN_MESSAGE_LENGTH)

\* C7 amended: with the other rules passed, a message carrying a text of
\* length L >= 1 is rejected if and only if L < MIN_MESSAGE_LENGTH (L equal
\* to MIN_MESSAGE_LENGTH is accepted); a message with no text, or with the
\* empty text, is accepted whatever MIN_MESSAGE_LENGTH is.
C7_LengthRule ==
    FilterDone /\ PassesOtherRules =>
        IF FilterMsg.text = None \/ Val(FilterMsg.text) = <<>>
        THEN Val(fnOut) = 0
        ELSE /\ (Val(fnOut) # 0) <=> (Len(Val(FilterMsg.text)) < FilterCfg.MIN_MESSAGE_LENGTH)
             /\ Val(fnOut) \in {0, 4}

\* C7 witness: a text exactly MIN_MESSAGE_LENGTH >= 2 long went through the
\* filter and was accepted.
C7_Witness ==
    /\ FilterDone /\ PassesOtherRules
    /\ FilterMsg.text # None
    /\ FilterCfg.MIN_MESSAGE_LENGTH >= 2
    /\ Len(Val(FilterMsg.text)) = FilterCfg.MIN_MESSAGE_LENGTH
    /\ Val(fnOut) = 0

\* the chat type of the filtered message, "unset" when chat.type is None
FilterChatType ==
    IF FilterMsg.chat = None THEN "nochat"
    ELSE IF Val(FilterMsg.chat).type = None THEN "unset"
    ELSE Val(Val(FilterMsg.chat).type)

\* C8: a message that reaches the chat-type rule (it has a chat that is not
\* excluded) is rejected by that rule exactly when its type is private and
\* INCLUDE_PRIVATE_CHATS is off, or group/supergroup and INCLUDE_GROUPS is
\* off, or channel and INCLUDE_CHANNELS is off; with the type unset or any
\* other type it is never rejected by that rule.
C8_ChatTypeRule ==
    FilterDone /\ Val(fnOut) \notin {1, 2} =>
        /\ (Val(fnOut) = 3) <=>
              \/ FilterChatType = "private" /\ ~FilterCfg.INCLUDE_PRIVATE_CHATS
              \/ FilterChatType \in {"group", "supergroup"} /\ ~FilterCfg.INCLUDE_GROUPS
              \/ FilterChatType = "channel" /\ ~FilterCfg.INCLUDE_CHANNELS
        /\ FilterChatType \notin {"private", "group", "supergroup", "channel"} => Val(fnOut) # 3

\* C8 witness: a chat of a type outside the three categories was accepted
\* with all three type flags off.
C8_Witness ==
    /\ FilterDone
    /\ FilterChatType = "bot"
    /\ ~FilterCfg.INCLUDE_PRIVATE_CHATS /\ ~FilterCfg.INCLUDE_GROUPS /\ ~FilterCfg.INCLUDE_CHANNELS
    /\ Val(fnOut) = 0

(***************************************************************************)
(* Properties of format_message_info (checked under SpecFormat)            *)
(***************************************************************************)
FormatMsg == Val(fnIn).m
FormatDone == phase = "Format" /\ fnOut # None

\* The free-text fields of the formatted message as they stand right before
\* escaping (title after its fallbacks, name after strip, text and caption
\* after truncation), each paired with what the report shows for it.
EscapedFields ==
    (IF FormatMsg.chat # None
     THEN {<< Val(OrElse(Val(FormatMsg.chat).title, OrElse(Val(FormatMsg.chat).first_name, Some(<<"Unknown">>)))),
              Val(Field(Val(fnOut), "Chat")) >>}
     ELSE {})
    \cup
    (IF FormatMsg.from_user # None
     THEN {<< SenderName(Val(FormatMsg.from_user)), Val(Field(Val(fnOut), "Sender")) >>}
     ELSE {})
    \cup
    (IF TruthyStr(FormatMsg.text)
     THEN {<< Truncate(Val(FormatMsg.text), TextLimit), Val(Field(Val(fnOut), "Text")) >>}
     ELSE {})
    \cup
    (IF FormatMsg.media # None /\ TruthyStr(FormatMsg.caption)
     THEN {<< Truncate(Val(FormatMsg.caption), CaptionLimit), Val(Field(Val(fnOut), "Caption")) >>}
     ELSE {})

\* number of reserved characters among the first i characters of x
ReservedUpTo(x, i) == Cardinality({ k \in 1..i : x[k] \in Reserved })

\* y is x with one backslash put immediately before each reserved character
\* and nothing else altered, added or removed
InsertedOnce(x, y) ==
    /\ Len(y) = Len(x) + ReservedUpTo(x, Len(x))
    /\ \A i \in 1..Len(x) :
          LET j == i + ReservedUpTo(x, i)
          IN /\ y[j] = x[i]
             /\ x[i] \in Reserved => y[j - 1] = Backslash

\* every reserved character of y has exactly one backslash before it
PrecededByOneBackslash(y) ==
    \A j \in 1..Len(y) :
        y[j] \in Reserved =>
            /\ j >= 2 /\ y[j - 1] = Backslash
            /\ j = 2 \/ y[j - 2] # Backslash

\* C9 as stated: in the report, every reserved character of the four
\* free-text fields is preceded by exactly one backslash, and nothing else of
\* the fields is altered, added or removed.
C9_EscapingAsStated ==
    FormatDone =>
        \A f \in EscapedFields : InsertedOnce(f[1], f[2]) /\ PrecededByOneBackslash(f[2])

\* C9 amended: exactly one backslash is inserted immediately before every
\* reserved character of the four free-text fields and nothing else is
\* altered, added or removed; a backslash of the field itself is copied as
\* it is, so a reserved character is preceded by exactly one backslash in
\* the report unless the field already has a backslash right before it.
C9_Escaping ==
    FormatDone =>
        \A f \in EscapedFields :
            /\ InsertedOnce(f[1], f[2])
            /\ (\A i \in 1..Len(f[1]) : f[1][i] \in Reserved => i = 1 \/ f[1][i - 1] # Backslash)
                  => PrecededByOneBackslash(f[2])

\* C9 witness: a text with a reserved character past position 1 and no
\* backslash was formatted, and its line is longer than the text.
C9_Witness ==
    /\ FormatDone
    /\ TruthyStr(FormatMsg.text)
    /\ Len(Val(FormatMsg.text)) = 2
    /\ Val(FormatMsg.text)[2] = Backtick
    /\ Val(FormatMsg.text)[1] = Star
    /\ Val(Field(Val(fnOut), "Text")) = <<Backslash, Star, Backslash, Backtick>>

\* C10: a text of more than 200 characters is shown as its first 200
\* characters followed by the ellipsis marker and a text of at most 200 is
\* shown whole with no marker; a caption (shown only with media) likewise
\* with 100.  The shown characters are escaped after the cut.
C10_Truncation ==
    FormatDone =>
        /\ TruthyStr(FormatMsg.text) =>
              LET text == Val(FormatMsg.text)
              IN Field(Val(fnOut), "Text") =
                    Some(IF Len(text) > TextLimit
                         THEN EscapeMarkdown(SubSeq(text, 1, TextLimit)) \o <<".", ".", ".">>
                         ELSE EscapeMarkdown(text))
        /\ FormatMsg.media # None /\ TruthyStr(FormatMsg.caption) =>
              LET caption == Val(FormatMsg.caption)
              IN Field(Val(fnOut), "Caption") =
                    Some(IF Len(caption) > CaptionLimit
                         THEN EscapeMarkdown(SubSeq(caption, 1, CaptionLimit)) \o <<".", ".", ".">>
                         ELSE EscapeMarkdown(caption))

\* C10 witness: a text of 201 characters whose last two are reserved was
\* formatted: the 200th is kept (escaped), the 201st is cut, the marker
\* follows.
C10_Witness ==
    /\ FormatDone
    /\ TruthyStr(FormatMsg.text)
    /\ Len(Val(FormatMsg.text)) = TextLimit + 1
    /\ Val(FormatMsg.text)[TextLimit] = Star
    /\ Val(FormatMsg.text)[TextLimit + 1] = Underscore
    /\ LET shown == Val(Field(Val(fnOut), "Text"))
       IN /\ Len(shown) = TextLimit + 1 + 3
          /\ SubSeq(shown, TextLimit, TextLimit + 4) = <<Backslash, Star, ".", ".", ".">>

(***************************************************************************)
(* Properties of the process (checked under Spec and FairSpec)             *)
(***************************************************************************)
\* an event is being handled, or has just been handled
Handling == pc \in {"send", "done"}

\* the recipients of the send attempts made so far for this event, in order
Targets == [ i \in 1..Len(sent) |-> sent[i].chat_id ]

Count(seq, x) == Cardinality({ i \in 1..Len(seq) : seq[i] = x })

Configured == { config.TARGET_USERS[i] : i \in 1..Len(config.TARGET_USERS) }

\* the sender of the current message is the listening account
FromSelf == message.from_user # None /\ Val(message.from_user).is_self

\* C1: once the delivery loop is entered, a failed send stops nothing: under
\* the fairness of FairSpec (every awaited send returns or raises) the loop
\* reaches its end with one attempt made for every entry of TARGET_USERS,
\* the handler returns normally, and the session is then ready for the next
\* message.
C1_FailureIsolated ==
    /\ [](pc = "done" /\ report # None => Targets = config.TARGET_USERS /\ outcome = "returned")
    /\ [](pc = "send" => Targets = SubSeq(config.TARGET_USERS, 1, idx - 1) /\ outcome = "running")
    /\ (pc = "send") ~> (pc = "done" /\ Targets = config.TARGET_USERS)
    /\ (pc = "done") ~> (pc = "none" /\ phase = "Listening" /\ ENABLED Receive)

\* C1 witness: the first send raised and the second recipient was still
\* attempted; the handler has returned.
C1_Witness ==
    /\ pc = "done" /\ outcome = "returned"
    /\ Len(sent) = 2
    /\ sent[1].result = "raise"
    /\ sent[2].chat_id # sent[1].chat_id

\* C2 as stated: the filter is evaluated at most once per event; an accepted
\* message that is not self-authored gets exactly one report and exactly one
\* send attempt per configured recipient, each with that report; no
\* recipient is attempted twice for one event.  (Read in the claim's favour:
\* only events in which no library call of the prefix raises are held to it.)
C2_OncePerRecipientAsStated ==
    /\ Count(trace, "filter") <= 1
    /\ \A u \in RecipientIds : Count(Targets, u) <= 1
    /\ pc = "done" /\ accepted = Some(TRUE) /\ ~FromSelf /\ fault = "none" =>
          /\ report # None /\ Count(trace, "format") = 1
          /\ \A u \in Configured : Count(Targets, u) = 1
          /\ \A i \in 1..Len(sent) : sent[i].chat_id \in Configured /\ sent[i].text = Notification(Val(report))

\* C2 amended: the filter is evaluated at most once and the formatter is
\* called at most once per event; an accepted, not self-authored message
\* whose formatting returns gets exactly one report and exactly one send
\* attempt per entry of TARGET_USERS, in list order, each with that report
\* (an id listed twice is attempted twice, an id listed once never twice,
\* also after a failure); when formatting raises there is no report and no
\* attempt.
C2_OncePerEntry ==
    /\ Count(trace, "filter") <= 1 /\ Count(trace, "format") <= 1
    /\ Handling /\ accepted = Some(TRUE) /\ ~FromSelf =>
          /\ Count(trace, "format") = 1
          /\ report # None <=> fault # "format"
    /\ report = None => sent = <<>>
    /\ pc = "send" => Targets = SubSeq(config.TARGET_USERS, 1, idx - 1)
    /\ pc = "done" /\ report # None => Targets = config.TARGET_USERS
    /\ \A i \in 1..Len(sent) : sent[i].text = Notification(Val(report))

\* C2 witness: the scenario text "hi", MIN_MESSAGE_LENGTH 1, no media, two
\* distinct recipients: handled to the end, one attempt each, the first one
\* failed.
C2_Witness ==
    /\ pc = "done"
    /\ message.text = Some(<<"h", "i">>) /\ message.media = None
    /\ config.MIN_MESSAGE_LENGTH = 1
    /\ config.TARGET_USERS = <<1, 2>>
    /\ Targets = <<1, 2>>
    /\ sent[1].result = "raise" /\ sent[2].result = "ok"

\* C3: for a message of an excluded chat, should_process_message returns
\* false whatever the chat type, text, media and flags are, and the handler
\* formats nothing and sends nothing.
C3_ExcludedChat ==
    Handling /\ message.chat # None /\ Val(message.chat).id \in config.EXCLUDED_CHATS =>
        /\ accepted # Some(TRUE)
        /\ fault \notin {"print", "filter"} => accepted = Some(FALSE)
        /\ report = None /\ sent = <<>> /\ pc = "done"

\* C3 witness: a message that every other rule lets through (all flags on,
\* text and media present) was rejected because its chat is excluded.
C3_Witness ==
    /\ pc = "done"
    /\ message.chat # None /\ Val(message.chat).id \in config.EXCLUDED_CHATS
    /\ message.text # None /\ message.media # None /\ ~FromSelf
    /\ RejectingRule([config EXCEPT !.EXCLUDED_CHATS = {}], message) = 0
    /\ config.TARGET_USERS # <<>>
    /\ accepted = Some(FALSE) /\ sent = <<>>

\* C4: a self-authored message is never formatted and never sent, whatever
\* the filter says; the self check runs only after the filter has accepted
\* the message, and the filter's answer does not depend on the sender.
C4_SelfAuthored ==
    Handling =>
        /\ FromSelf => report = None /\ sent = <<>> /\ Count(trace, "format") = 0
        /\ Count(trace, "self") = 1 =>
              accepted = Some(TRUE) /\ SubSeq(trace, 1, 3) = <<"print", "filter", "self">>
        /\ accepted = Some(FALSE) => Count(trace, "self") = 0
        /\ accepted # None =>
              Val(accepted) = should_process_message(config, [message EXCEPT !.from_user = None])

\* C4 witness: a self-authored message passed the filter, reached the self
\* check and was dropped there, with recipients configured.
C4_Witness ==
    /\ pc = "done" /\ FromSelf
    /\ accepted = Some(TRUE)
    /\ trace = <<"print", "filter", "self">>
    /\ config.TARGET_USERS # <<>>
    /\ report = None /\ sent = <<>>

CredentialsPresent == config.API_ID /\ config.API_HASH /\ config.BOT_TOKEN

\* the process is past import and past main's checks
StartupOver == phase \notin {"Start", "Idle"}

\* C5 as stated: with the application id, the application secret or the bot
\* token missing, the process logs an error and never starts listening
\* (user_bot.run is not called); with all three it starts listening exactly
\* once, also with no recipient; once listening it never leaves.
C5_StartupGate ==
    /\ [](~CredentialsPresent => phase # "Listening" /\ runCalls = 0)
    /\ [](~CredentialsPresent /\ StartupOver => \E r \in log : r[1] = "error")
    /\ [](CredentialsPresent /\ StartupOver => phase = "Listening" /\ runCalls = 1)
    /\ [][phase = "Listening" => phase' = "Listening"]_vars

\* C6: a failure raised in the filter or in the formatter ends the handler
\* at its outer except clause and a failed send ends at the inner one; none
\* of them leaves handle_message.  After such an event the session is still
\* listening, can take the next message, and handles it from scratch: the
\* filter's answer, the report and the attempts are those of the new
\* message alone.
C6_HandlerBoundary ==
    /\ outcome = "propagated" => fault = "print"
    /\ Handling /\ fault = "filter" => outcome = "caught" /\ pc = "done" /\ sent = <<>>
    /\ Handling /\ fault = "format" /\ Count(trace, "format") = 1 =>
          outcome = "caught" /\ pc = "done" /\ sent = <<>>
    /\ (\E i \in 1..Len(sent) : sent[i].result = "raise") => outcome \in {"running", "returned"}
    /\ prev \in {"caught", "sendfailed"} =>
          /\ phase = "Listening"
          /\ pc = "none" => ENABLED Receive
          /\ pc = "done" /\ fault = "none" =>
                /\ accepted = Some(RejectingRule(config, message) = 0)
                /\ Val(accepted) /\ ~FromSelf =>
                      /\ \E now \in DispatchClock : report = Some(format_message_info(message, now))
                      /\ Targets = config.TARGET_USERS

\* C6 witness: the previous event failed in the filter or the formatter and
\* was caught; the current one was accepted, formatted and sent to both
\* recipients.
C6_Witness ==
    /\ prev = "caught"
    /\ pc = "done" /\ fault = "none"
    /\ report # None
    /\ Len(sent) = 2 /\ Targets = config.TARGET_USERS

====
